---- MODULE Spec2Model ----
(***************************************************************************)
(* Change tracking for nested dict/list structures (sqlalchemy_json).      *)
(*                                                                         *)
(* The heap is a sequence of tracked objects; an object's identity is its  *)
(* index.  Every tracked object carries its class, its `parent` attribute  *)
(* (0 is None), its native contents, and the number of times               *)
(* Mutable.changed() was invoked on it (the owner notification hook), and   *)
(* the number of times its own changed() was called.                       *)
(* Values are records: scalars, references to tracked objects, and plain   *)
(* dicts/lists (by value, entries in insertion order).  A plain dict or    *)
(* list the caller keeps a reference to is an object of the heap too, of   *)
(* class dict or list, and is passed by reference.                         *)
(***************************************************************************)
EXTENDS Integers, Sequences, FiniteSets, TLC

VARIABLES
    heap,     \* the tracked objects
    pre,      \* the heap before the last call
    last,     \* the last call: method, receiver, arguments, outcome
    nOps,     \* the number of calls made
    copied,   \* the copies made (deepcopy, pickle round trip):
              \* [src |-> object, dst |-> its copy]
    stats,    \* successful mutating calls on objects of a tree, and the
              \* hook invocations at the tree's root during them
    hookOk    \* whether the owner's hook, Mutable.changed(), returns
              \* normally (it raises otherwise)

vars == <<heap, pre, last, nOps, copied, stats, hookOk>>

(* ------------------------------ bounds -------------------------------- *)
MaxNodes == 7
MaxOps == 2
MaxLen == 3

(* ------------------------------ values -------------------------------- *)
Num(n) == [t |-> "int", v |-> n]
Ref(id) == [t |-> "ref", v |-> id]
PDict(items) == [t |-> "dict", v |-> items]
PList(items) == [t |-> "list", v |-> items]
None == [t |-> "none", v |-> 0]

Keys == {"a", "b"}

IsPlainContainer(x) == x.t \in {"dict", "list"}

\* A tracked object as allocated, before its contents are filled in.
NewNode(cls) == [cls |-> cls, parent |-> 0, items |-> <<>>, hook |-> 0, calls |-> 0]

IsDictCls(cls) == cls \in {"TrackedDict", "NestedMutableDict"}
IsListCls(cls) == cls \in {"TrackedList", "NestedMutableList"}
\* isinstance(self, Mutable): only the Nested* classes mix Mutable in.
IsMutable(cls) == cls \in {"NestedMutableDict", "NestedMutableList"}

\* type(obj) is dict or list exactly: the keys of _type_mapping.
IsPlainCls(cls) == cls \in {"dict", "list"}
\* The classes whose contents are key/value entries.
IsMapping(cls) == IsDictCls(cls) \/ cls = "dict"

Nodes(h) == 1..Len(h)
\* What converting reads of an object passed by reference: its type and,
\* by iterating it, its members.
Entries(h, n) == [t |-> h[n].cls, v |-> h[n].items]
IsDict(h, n) == n \in Nodes(h) /\ IsDictCls(h[n].cls)
IsList(h, n) == n \in Nodes(h) /\ IsListCls(h[n].cls)

(* ------------------------- native dict / list ------------------------- *)
HasKey(items, k) == \E i \in 1..Len(items) : items[i][1] = k
KeyPos(items, k) == CHOOSE i \in 1..Len(items) : items[i][1] = k
DictGet(items, k) == items[KeyPos(items, k)][2]
\* dict.__setitem__: an existing key keeps its position.
DictStore(items, k, v) ==
    IF HasKey(items, k) THEN [items EXCEPT ![KeyPos(items, k)] = <<k, v>>]
    ELSE Append(items, <<k, v>>)
DictRemove(items, k) == SelectSeq(items, LAMBDA e : e[1] # k)

RECURSIVE DictStoreAll(_, _)
DictStoreAll(items, pairs) ==
    IF pairs = <<>> THEN items
    ELSE DictStoreAll(DictStore(items, Head(pairs)[1], Head(pairs)[2]), Tail(pairs))

\* A Python index i of a list of length n is valid iff -n <= i < n.
ValidIndex(i, n) == -n <= i /\ i < n
\* The 1-based position of a valid Python index.
Pos(i, n) == IF i >= 0 THEN i + 1 ELSE n + i + 1
RemoveAt(s, p) == SubSeq(s, 1, p - 1) \o SubSeq(s, p + 1, Len(s))
InsertAt(s, p, x) == SubSeq(s, 1, p - 1) \o <<x>> \o SubSeq(s, p, Len(s))
RECURSIVE Reverse(_)
Reverse(s) == IF s = <<>> THEN <<>> ELSE Reverse(Tail(s)) \o <<Head(s)>>

(* --------------------------- TrackedObject ---------------------------- *)
\* TrackedObject.changed: walk the parent chain; at the parentless object
\* call Mutable.changed() if the object is a Mutable.
\* (variant: the object notifies only when it is itself parentless)
changed_unpropagated(h, self) ==
    IF h[self].parent = 0 /\ IsMutable(h[self].cls)
    THEN [h EXCEPT ![self].calls = @ + 1, ![self].hook = @ + 1]
    ELSE [h EXCEPT ![self].calls = @ + 1]

RECURSIVE changed(_, _)
changed(h, self) ==
    LET h1 == [h EXCEPT ![self].calls = @ + 1]
    IN IF h[self].parent # 0 THEN changed(h1, h[self].parent)
       ELSE IF IsMutable(h[self].cls) THEN [h1 EXCEPT ![self].hook = @ + 1]
       ELSE h1

\* TrackedObject.convert / convert_iterable / convert_items and the
\* constructors they call.  convert looks the exact type of obj up in
\* _type_mapping, which holds dict and list only: a tracked object (whose
\* type is a subclass) and a scalar are returned as they are.
RECURSIVE convert(_, _, _), convert_iterable(_, _, _), convert_items(_, _, _)
\* (variant: the container is wrapped, its members are stored as they are)
convert_shallow(h, obj, parent) ==
    IF IsPlainContainer(obj)
    THEN LET cls == IF obj.t = "dict" THEN "TrackedDict" ELSE "TrackedList"
         IN [h |-> Append(h, [NewNode(cls) EXCEPT !.items = obj.v, !.parent = parent]),
             v |-> Ref(Len(h) + 1)]
    ELSE [h |-> h, v |-> obj]

\* (variant: a tracked object passed in gets the new container as parent)
convert_rebinding(h, obj, parent) ==
    IF IsPlainContainer(obj)
    THEN LET id == Len(h) + 1
             cls == IF obj.t = "dict" THEN "TrackedDict" ELSE "TrackedList"
             h1 == Append(h, NewNode(cls))
             r == IF obj.t = "dict" THEN convert_items(h1, obj.v, id)
                  ELSE convert_iterable(h1, obj.v, id)
             filled == IF obj.t = "dict" THEN DictStoreAll(<<>>, r.out) ELSE r.out
         IN [h |-> [r.h EXCEPT ![id].items = filled, ![id].parent = parent],
             v |-> Ref(id)]
    ELSE IF obj.t = "ref" THEN [h |-> [h EXCEPT ![obj.v].parent = parent], v |-> obj]
    ELSE [h |-> h, v |-> obj]

\* (variant: the members of a converted container get the container's own
\* parent, not the container)
convert_flat(h, obj, parent) ==
    IF IsPlainContainer(obj)
    THEN LET id == Len(h) + 1
             cls == IF obj.t = "dict" THEN "TrackedDict" ELSE "TrackedList"
             h1 == Append(h, NewNode(cls))
             r == IF obj.t = "dict" THEN convert_items(h1, obj.v, parent)
                  ELSE convert_iterable(h1, obj.v, parent)
             filled == IF obj.t = "dict" THEN DictStoreAll(<<>>, r.out) ELSE r.out
         IN [h |-> [r.h EXCEPT ![id].items = filled, ![id].parent = parent],
             v |-> Ref(id)]
    ELSE [h |-> h, v |-> obj]

\* (variant: the new container is filled with the members of obj as they
\* are, so a container nested in obj is held by both)
convert_sharing(h, obj, parent) ==
    LET src == IF obj.t = "ref" THEN Entries(h, obj.v) ELSE obj
    IN IF IsPlainContainer(src)
       THEN LET cls == IF src.t = "dict" THEN "TrackedDict" ELSE "TrackedList"
            IN [h |-> Append(h, [NewNode(cls) EXCEPT !.items = src.v,
                                                     !.parent = parent]),
                v |-> Ref(Len(h) + 1)]
       ELSE [h |-> h, v |-> obj]

convert(h, obj, parent) ==
    LET src == IF obj.t = "ref" THEN Entries(h, obj.v) ELSE obj
    IN IF IsPlainContainer(src)
       THEN LET id == Len(h) + 1
                cls == IF src.t = "dict" THEN "TrackedDict" ELSE "TrackedList"
                h1 == Append(h, NewNode(cls))
                r == IF src.t = "dict" THEN convert_items(h1, src.v, id)
                     ELSE convert_iterable(h1, src.v, id)
                filled == IF src.t = "dict" THEN DictStoreAll(<<>>, r.out) ELSE r.out
            IN [h |-> [r.h EXCEPT ![id].items = filled, ![id].parent = parent],
                v |-> Ref(id)]
       ELSE [h |-> h, v |-> obj]

convert_iterable(h, iterable, self) ==
    IF iterable = <<>> THEN [h |-> h, out |-> <<>>]
    ELSE LET c == convert(h, Head(iterable), self)
             r == convert_iterable(c.h, Tail(iterable), self)
         IN [h |-> r.h, out |-> <<c.v>> \o r.out]

convert_items(h, items, self) ==
    IF items = <<>> THEN [h |-> h, out |-> <<>>]
    ELSE LET c == convert(h, Head(items)[2], self)
             r == convert_items(c.h, Tail(items), self)
         IN [h |-> r.h, out |-> << <<Head(items)[1], c.v>> >> \o r.out]

\* NestedMutableDict(source) / NestedMutableList(iterable): a parentless
\* tracked object of a Mutable class, filled by the native constructor.
\* (variant: the object is made empty and filled through its own
\* changed()-calling store, one member at a time)
RECURSIVE fill_notifying(_, _, _)
fill_notifying(h, self, members) ==
    IF members = <<>> THEN h
    ELSE LET h1 == changed(h, self)
             c == convert(h1, IF IsDictCls(h[self].cls) THEN Head(members)[2]
                              ELSE Head(members), self)
             stored == IF IsDictCls(h[self].cls)
                       THEN DictStore(c.h[self].items, Head(members)[1], c.v)
                       ELSE Append(c.h[self].items, c.v)
         IN fill_notifying([c.h EXCEPT ![self].items = stored], self, Tail(members))

construct_notifying(h, source) ==
    LET cls == IF source.t = "dict" THEN "NestedMutableDict" ELSE "NestedMutableList"
    IN fill_notifying(Append(h, NewNode(cls)), Len(h) + 1, source.v)

construct(h, source) ==
    LET id == Len(h) + 1
        cls == IF source.t = "dict" THEN "NestedMutableDict" ELSE "NestedMutableList"
        h1 == Append(h, NewNode(cls))
        r == IF source.t = "dict" THEN convert_items(h1, source.v, id)
             ELSE convert_iterable(h1, source.v, id)
        filled == IF source.t = "dict" THEN DictStoreAll(<<>>, r.out) ELSE r.out
    IN [r.h EXCEPT ![id].items = filled]

\* The outcome of one call: the heap after it, the exception it raised
\* ("none" when it returned), the value returned, the contents of the
\* receiver at the moment changed() ran, and the order of its steps.
Outcome(h, err, ret, seen, steps) ==
    [h |-> h, err |-> err, ret |-> ret, seen |-> seen, steps |-> steps]

(* ----------------------------- TrackedDict ---------------------------- *)
\* Every overriding method calls changed() first, then converts, then runs
\* the native method; an exception of the native method is raised after
\* changed() has run.
TrackedDict_setitem(h, self, key, value) ==
    LET h1 == changed(h, self)
        c == convert(h1, value, self)
    IN Outcome([c.h EXCEPT ![self].items = DictStore(@, key, c.v)], "none", None,
               h1[self].items, <<"changed", "convert", "native">>)

\* (variant: a tracked object removed from the dict loses its parent)
TrackedDict_delitem_unlinking(h, self, key) ==
    LET h1 == changed(h, self)
        x == DictGet(h1[self].items, key)
        h2 == [h1 EXCEPT ![self].items = DictRemove(@, key)]
    IN IF HasKey(h1[self].items, key)
       THEN Outcome(IF x.t = "ref" THEN [h2 EXCEPT ![x.v].parent = 0] ELSE h2,
                    "none", None, h1[self].items, <<"changed", "native">>)
       ELSE Outcome(h1, "KeyError", None, h1[self].items, <<"changed", "native">>)

TrackedDict_delitem(h, self, key) ==
    LET h1 == changed(h, self)
    IN IF HasKey(h1[self].items, key)
       THEN Outcome([h1 EXCEPT ![self].items = DictRemove(@, key)], "none", None,
                    h1[self].items, <<"changed", "native">>)
       ELSE Outcome(h1, "KeyError", None, h1[self].items, <<"changed", "native">>)

\* (variant: an empty dict is left alone, without changed())
TrackedDict_clear_guarded(h, self) ==
    IF h[self].items = <<>>
    THEN Outcome(h, "none", None, h[self].items, <<>>)
    ELSE LET h1 == changed(h, self)
         IN Outcome([h1 EXCEPT ![self].items = <<>>], "none", None,
                    h1[self].items, <<"changed", "native">>)

TrackedDict_clear(h, self) ==
    LET h1 == changed(h, self)
    IN Outcome([h1 EXCEPT ![self].items = <<>>], "none", None,
               h1[self].items, <<"changed", "native">>)

\* pop(key) and pop(key, default): hasDefault tells which.
TrackedDict_pop(h, self, key, hasDefault, default) ==
    LET h1 == changed(h, self)
        items == h1[self].items
    IN IF HasKey(items, key)
       THEN Outcome([h1 EXCEPT ![self].items = DictRemove(@, key)], "none",
                    DictGet(items, key), items, <<"changed", "native">>)
       ELSE IF hasDefault
       THEN Outcome(h1, "none", default, items, <<"changed", "native">>)
       ELSE Outcome(h1, "KeyError", None, items, <<"changed", "native">>)

\* dict.popitem removes the entry inserted last.
TrackedDict_popitem(h, self) ==
    LET h1 == changed(h, self)
        items == h1[self].items
    IN IF items # <<>>
       THEN Outcome([h1 EXCEPT ![self].items = SubSeq(items, 1, Len(items) - 1)],
                    "none", items[Len(items)][2], items, <<"changed", "native">>)
       ELSE Outcome(h1, "KeyError", None, items, <<"changed", "native">>)

\* update(source, **kwds): the entries of source, then those of kwds.
TrackedDict_update(h, self, source, kwds) ==
    LET h1 == changed(h, self)
        r1 == convert_items(h1, source.v, self)
        r2 == convert_items(r1.h, kwds.v, self)
    IN Outcome([r2.h EXCEPT ![self].items = DictStoreAll(@, r1.out \o r2.out)],
               "none", None, h1[self].items, <<"changed", "convert", "native">>)

\* (variant: the default passed in is returned, not the value stored)
TrackedDict_setdefault_raw(h, self, key, default) ==
    IF HasKey(h[self].items, key)
    THEN Outcome(h, "none", DictGet(h[self].items, key), h[self].items, <<>>)
    ELSE LET o == TrackedDict_setitem(h, self, key, default)
         IN Outcome(o.h, "none", default, o.seen, o.steps)

TrackedDict_setdefault(h, self, key, default) ==
    IF HasKey(h[self].items, key)
    THEN Outcome(h, "none", DictGet(h[self].items, key), h[self].items, <<>>)
    ELSE LET o == TrackedDict_setitem(h, self, key, default)
         IN Outcome(o.h, "none", DictGet(o.h[self].items, key), o.seen, o.steps)

\* dict.__ior__ is inherited: the native merge, with no changed() and no
\* conversion.
TrackedDict_ior(h, self, other) ==
    Outcome([h EXCEPT ![self].items = DictStoreAll(@, other.v)], "none", Ref(self),
            h[self].items, <<"native">>)

(* ----------------------------- TrackedList ---------------------------- *)
KindOf(h, x) ==
    IF x.t = "ref" THEN (IF IsMapping(h[x.v].cls) THEN "dict" ELSE "list") ELSE x.t
ItemsOf(h, x) == IF x.t = "ref" THEN h[x.v].items ELSE x.v

\* x == y as list.remove evaluates it, for a stored value x and a plain
\* argument y: tracked containers compare by value like the native ones,
\* dicts regardless of the order of their entries.
RECURSIVE py_eq(_, _, _)
py_eq(h, x, y) ==
    IF KindOf(h, x) # KindOf(h, y) THEN FALSE
    ELSE IF KindOf(h, x) = "int" THEN x.v = y.v
    ELSE IF KindOf(h, x) = "none" THEN TRUE
    ELSE LET xs == ItemsOf(h, x)
             ys == ItemsOf(h, y)
         IN IF KindOf(h, x) = "list"
            THEN /\ Len(xs) = Len(ys)
                 /\ \A i \in 1..Len(xs) : py_eq(h, xs[i], ys[i])
            ELSE /\ Len(xs) = Len(ys)
                 /\ \A i \in 1..Len(xs) :
                        /\ HasKey(ys, xs[i][1])
                        /\ py_eq(h, xs[i][2], DictGet(ys, xs[i][1]))

\* (variant: an index out of range appends instead of raising)
TrackedList_setitem_growing(h, self, index, value) ==
    LET h1 == changed(h, self)
        n == Len(h1[self].items)
        c == convert(h1, value, self)
    IN IF ValidIndex(index, n)
       THEN Outcome([c.h EXCEPT ![self].items[Pos(index, n)] = c.v], "none", None,
                    h1[self].items, <<"changed", "convert", "native">>)
       ELSE Outcome([c.h EXCEPT ![self].items = Append(@, c.v)], "none", None,
                    h1[self].items, <<"changed", "convert", "native">>)

TrackedList_setitem(h, self, index, value) ==
    LET h1 == changed(h, self)
        n == Len(h1[self].items)
        c == convert(h1, value, self)
    IN IF ValidIndex(index, n)
       THEN Outcome([c.h EXCEPT ![self].items[Pos(index, n)] = c.v], "none", None,
                    h1[self].items, <<"changed", "convert", "native">>)
       \* the converted object is dropped with the exception
       ELSE Outcome(h1, "IndexError", None, h1[self].items,
                    <<"changed", "convert", "native">>)

TrackedList_delitem(h, self, index) ==
    LET h1 == changed(h, self)
        n == Len(h1[self].items)
    IN IF ValidIndex(index, n)
       THEN Outcome([h1 EXCEPT ![self].items = RemoveAt(@, Pos(index, n))], "none",
                    None, h1[self].items, <<"changed", "native">>)
       ELSE Outcome(h1, "IndexError", None, h1[self].items, <<"changed", "native">>)

\* (variant: the item is stored first, changed() is called last)
TrackedList_append_then_changed(h, self, item) ==
    LET c == convert(h, item, self)
        h1 == [c.h EXCEPT ![self].items = Append(@, c.v)]
    IN Outcome(changed(h1, self), "none", None, h1[self].items,
               <<"convert", "native", "changed">>)

TrackedList_append(h, self, item) ==
    LET h1 == changed(h, self)
        c == convert(h1, item, self)
    IN Outcome([c.h EXCEPT ![self].items = Append(@, c.v)], "none", None,
               h1[self].items, <<"changed", "convert", "native">>)

TrackedList_extend(h, self, iterable) ==
    LET h1 == changed(h, self)
        r == convert_iterable(h1, iterable.v, self)
    IN Outcome([r.h EXCEPT ![self].items = @ \o r.out], "none", None,
               h1[self].items, <<"changed", "convert", "native">>)

TrackedList_remove(h, self, value) ==
    LET h1 == changed(h, self)
        items == h1[self].items
        hits == {i \in 1..Len(items) : py_eq(h1, items[i], value)}
    IN IF hits # {}
       THEN LET p == CHOOSE i \in hits : \A j \in hits : i <= j
            IN Outcome([h1 EXCEPT ![self].items = RemoveAt(@, p)], "none", None,
                       items, <<"changed", "native">>)
       ELSE Outcome(h1, "ValueError", None, items, <<"changed", "native">>)

TrackedList_pop(h, self, index) ==
    LET h1 == changed(h, self)
        items == h1[self].items
        n == Len(items)
    IN IF ValidIndex(index, n)
       THEN Outcome([h1 EXCEPT ![self].items = RemoveAt(@, Pos(index, n))], "none",
                    items[Pos(index, n)], items, <<"changed", "native">>)
       ELSE Outcome(h1, "IndexError", None, items, <<"changed", "native">>)

\* sort passes cmp=cmp on to list.sort, which under Python 3 (setup.py:
\* python_requires >= 3.6) takes no such keyword: TypeError, whatever the
\* arguments, after changed() has run.
TrackedList_sort(h, self, reverse) ==
    LET h1 == changed(h, self)
    IN Outcome(h1, "TypeError", None, h1[self].items, <<"changed", "native">>)

\* The inherited list mutators: native, with no changed() and no conversion.
list_insert(h, self, index, value) ==
    LET n == Len(h[self].items)
        i == IF index < 0 THEN (IF index + n < 0 THEN 0 ELSE index + n)
             ELSE IF index > n THEN n ELSE index
    IN Outcome([h EXCEPT ![self].items = InsertAt(@, i + 1, value)], "none", None,
               h[self].items, <<"native">>)

list_reverse(h, self) ==
    Outcome([h EXCEPT ![self].items = Reverse(@)], "none", None,
            h[self].items, <<"native">>)

list_clear(h, self) ==
    Outcome([h EXCEPT ![self].items = <<>>], "none", None, h[self].items, <<"native">>)

list_iadd(h, self, iterable) ==
    Outcome([h EXCEPT ![self].items = @ \o iterable.v], "none", Ref(self),
            h[self].items, <<"native">>)

RECURSIVE Repeat(_, _)
Repeat(s, k) == IF k <= 0 THEN <<>> ELSE s \o Repeat(s, k - 1)

list_imul(h, self, k) ==
    Outcome([h EXCEPT ![self].items = Repeat(@, k)], "none", Ref(self),
            h[self].items, <<"native">>)

(* ----------------------- merge through the parent -------------------- *)
\* The member of container p under key k (a dict) or at index i (a list);
\* None when there is none.
Member(h, p, k, i) ==
    LET items == h[p].items
    IN IF IsDictCls(h[p].cls)
       THEN (IF HasKey(items, k) THEN DictGet(items, k) ELSE None)
       ELSE (IF ValidIndex(i, Len(items)) THEN items[Pos(i, Len(items))] ELSE None)

\* (variant: the merge alone, as on a held reference: d = p[k]; d |= other)
ior_held(h, p, k, i, other) ==
    LET m == Member(h, p, k, i).v
        o == TrackedDict_ior(h, m, other)
    IN Outcome(o.h, "none", None, h[p].items, <<"native">>)

\* p[k] |= other for a tracked dict stored in p: the member is read, merged
\* in place by dict.__ior__, and the result (the member itself) is stored
\* back through p.__setitem__.
ior_through_parent(h, p, k, i, other) ==
    LET m == Member(h, p, k, i).v
        o == TrackedDict_ior(h, m, other)
        s == IF IsDictCls(h[p].cls) THEN TrackedDict_setitem(o.h, p, k, o.ret)
             ELSE TrackedList_setitem(o.h, p, i, o.ret)
    IN Outcome(s.h, s.err, s.ret, s.seen, <<"native">> \o s.steps)

(* ------------------------------ deepcopy ------------------------------ *)
\* copy.deepcopy of a tracked object goes through __reduce_ex__: the copy
\* is made by cls.__new__ (no __init__, hence no `parent` attribute yet),
\* entered in the memo, given the deep copy of the state (_PickleMixin's
\* __getstate__ for the Nested* classes, __dict__ for the others: in both
\* the state holds `parent`), and then filled through its own
\* __setitem__ / append, which call changed() on the copy.
Unset == 0 - 1

\* __getstate__: a copy of __dict__ without `_parents`.  `parent` stays in
\* it; the plain Tracked* classes have no __getstate__ of their own and
\* give their __dict__, which holds `parent` too.
getstate(h, self) == [parent |-> h[self].parent]

RECURSIVE AttrMissing(_, _)
AttrMissing(h, n) ==
    \/ h[n].parent = Unset
    \/ h[n].parent > 0 /\ AttrMissing(h, h[n].parent)

RECURSIVE deepcopy(_, _), deepcopy_seq(_, _, _), reconstruct(_, _, _)
\* (variant: the copy keeps the `parent` of the original, by reference)
deepcopy_parent_shared(c, x) ==
    IF c.err # "none" THEN [c |-> c, v |-> None]
    ELSE IF x.t = "ref"
    THEN IF c.memo[x.v] # 0 THEN [c |-> c, v |-> Ref(c.memo[x.v])]
         ELSE LET y == Len(c.h) + 1
                  c1 == [c EXCEPT !.h = Append(@, [NewNode(c.h[x.v].cls)
                                                     EXCEPT !.parent = c.h[x.v].parent]),
                                  !.memo[x.v] = y]
              IN [c |-> reconstruct(c1, y, c.h[x.v].items), v |-> Ref(y)]
    ELSE IF IsPlainContainer(x)
    THEN LET r == deepcopy_seq(c, x.v, x.t = "dict")
         IN [c |-> r.c, v |-> [t |-> x.t, v |-> r.out]]
    ELSE [c |-> c, v |-> x]

deepcopy(c, x) ==
    IF c.err # "none" THEN [c |-> c, v |-> None]
    ELSE IF x.t = "ref"
    THEN IF c.memo[x.v] # 0 THEN [c |-> c, v |-> Ref(c.memo[x.v])]
         ELSE LET y == Len(c.h) + 1
                  p == getstate(c.h, x.v).parent
                  c1 == [c EXCEPT !.h = Append(@, [NewNode(c.h[x.v].cls)
                                                     EXCEPT !.parent = Unset]),
                                  !.memo[x.v] = y]
                  sp == IF p = 0 THEN [c |-> c1, v |-> None] ELSE deepcopy(c1, Ref(p))
                  c2 == IF sp.c.err # "none" THEN sp.c
                        ELSE [sp.c EXCEPT !.h[y].parent = IF p = 0 THEN 0 ELSE sp.v.v]
              IN [c |-> reconstruct(c2, y, c.h[x.v].items), v |-> Ref(y)]
    ELSE IF IsPlainContainer(x)
    THEN LET r == deepcopy_seq(c, x.v, x.t = "dict")
         IN [c |-> r.c, v |-> [t |-> x.t, v |-> r.out]]
    ELSE [c |-> c, v |-> x]

deepcopy_seq(c, s, pairs) ==
    IF s = <<>> THEN [c |-> c, out |-> <<>>]
    ELSE LET d == deepcopy(c, IF pairs THEN Head(s)[2] ELSE Head(s))
             r == deepcopy_seq(d.c, Tail(s), pairs)
         IN [c |-> r.c,
             out |-> <<IF pairs THEN <<Head(s)[1], d.v>> ELSE d.v>> \o r.out]

\* _reconstruct's loops: y[key] = deepcopy(value) / y.append(deepcopy(item)).
reconstruct(c, y, items) ==
    IF items = <<>> \/ c.err # "none" THEN c
    ELSE LET isDict == IsDictCls(c.h[y].cls)
             d == deepcopy(c, IF isDict THEN Head(items)[2] ELSE Head(items))
             c1 == d.c
             c2 == IF c1.err # "none" THEN c1
                   ELSE IF AttrMissing(c1.h, y)
                   THEN [c1 EXCEPT !.err = "AttributeError"]
                   ELSE [c1 EXCEPT !.h =
                           IF isDict
                           THEN TrackedDict_setitem(c1.h, y, Head(items)[1], d.v).h
                           ELSE TrackedList_append(c1.h, y, d.v).h]
         IN reconstruct(c2, y, Tail(items))

copy_deepcopy(h, x) ==
    LET d == deepcopy([h |-> h, memo |-> [n \in Nodes(h) |-> 0], err |-> "none"], Ref(x))
    IN IF d.c.err # "none"
       THEN Outcome(h, d.c.err, None, h[x].items, <<>>)
       ELSE Outcome(d.c.h, "none", d.v, h[x].items, <<>>)

(* ------------------------------- pickle ------------------------------ *)
\* pickle.loads(pickle.dumps(x)) with the default protocol.  An object is
\* written as NEWOBJ (made by cls.__new__: no __init__, no `parent`
\* attribute), memoised, then its members, stored by SETITEMS / APPENDS
\* through the object's own __setitem__ / extend, and only then its state,
\* which BUILD puts into __dict__.
RECURSIVE pickle_setitems(_, _, _)
pickle_setitems(h, y, pairs) ==
    IF pairs = <<>> THEN h
    ELSE pickle_setitems(TrackedDict_setitem(h, y, Head(pairs)[1], Head(pairs)[2]).h,
                         y, Tail(pairs))

\* SETITEMS / APPENDS: the loaded members r.out are stored in the new
\* object y through its own __setitem__ / extend, which call changed().
pickle_store(r, y, isDict) ==
    IF r.c.err # "none" \/ r.out = <<>> THEN r.c
    ELSE IF AttrMissing(r.c.h, y) THEN [r.c EXCEPT !.err = "AttributeError"]
    ELSE [r.c EXCEPT !.h = IF isDict THEN pickle_setitems(r.c.h, y, r.out)
                           ELSE TrackedList_extend(r.c.h, y, PList(r.out)).h]

\* BUILD: the loaded state goes into y.__dict__.
pickle_build(sp, y, p) ==
    IF sp.c.err # "none" THEN sp.c
    ELSE [sp.c EXCEPT !.h[y].parent = IF p = 0 THEN 0 ELSE sp.v.v]

RECURSIVE pickle_load(_, _), pickle_load_seq(_, _, _), pickle_state(_, _)
pickle_load(c, x) ==
    IF c.err # "none" THEN [c |-> c, v |-> None]
    ELSE IF x.t = "ref"
    THEN IF c.memo[x.v] # 0 THEN [c |-> c, v |-> Ref(c.memo[x.v])]
         ELSE LET y == Len(c.h) + 1
                  isDict == IsDictCls(c.h[x.v].cls)
                  p == getstate(c.h, x.v).parent
                  c1 == [c EXCEPT !.h = Append(@, [NewNode(c.h[x.v].cls)
                                                     EXCEPT !.parent = Unset]),
                                  !.memo[x.v] = y]
              IN [c |-> pickle_build(
                           pickle_state(
                              pickle_store(pickle_load_seq(c1, c.h[x.v].items, isDict),
                                           y, isDict),
                              p),
                           y, p),
                  v |-> Ref(y)]
    ELSE IF IsPlainContainer(x)
    THEN LET r == pickle_load_seq(c, x.v, x.t = "dict")
         IN [c |-> r.c, v |-> [t |-> x.t, v |-> r.out]]
    ELSE [c |-> c, v |-> x]

\* The state {"parent": p}, loaded after the members.
pickle_state(c, p) ==
    IF p = 0 \/ c.err # "none" THEN [c |-> c, v |-> None] ELSE pickle_load(c, Ref(p))

pickle_load_seq(c, s, pairs) ==
    IF s = <<>> THEN [c |-> c, out |-> <<>>]
    ELSE LET d == pickle_load(c, IF pairs THEN Head(s)[2] ELSE Head(s))
             r == pickle_load_seq(d.c, Tail(s), pairs)
         IN [c |-> r.c,
             out |-> <<IF pairs THEN <<Head(s)[1], d.v>> ELSE d.v>> \o r.out]

\* A failed load leaves nothing behind.
pickle_roundtrip(h, x) ==
    LET d == pickle_load([h |-> h, memo |-> [n \in Nodes(h) |-> 0], err |-> "none"],
                         Ref(x))
    IN IF d.c.err # "none"
       THEN Outcome(h, d.c.err, None, h[x].items, <<>>)
       ELSE Outcome(d.c.h, "none", d.v, h[x].items, <<>>)

(* ------------------------- the caller's objects ----------------------- *)
\* A dict and a list nested in it, as the caller builds them: {"a": [1]}.
caller_objects(h) ==
    LET d == Len(h) + 1
        l == Len(h) + 2
    IN h \o <<[NewNode("dict") EXCEPT !.items = << <<"a", Ref(l)>> >>],
              [NewNode("list") EXCEPT !.items = <<Num(1)>>]>>

\* dict.__setitem__ on a plain dict: native, as the list mutators above.
dict_setitem(h, self, key, value) ==
    Outcome([h EXCEPT ![self].items = DictStore(@, key, value)], "none", None,
            h[self].items, <<"native">>)

PlainNodes(h) == {n \in Nodes(h) : IsPlainCls(h[n].cls)}
TrackedNodes(h) == Nodes(h) \ PlainNodes(h)

(* ------------------------------ navigation ---------------------------- *)
\* The parentless object the parent chain of n ends at.
RECURSIVE RootOf(_, _)
RootOf(h, n) == IF h[n].parent = 0 THEN n ELSE RootOf(h, h[n].parent)

\* The tracked objects a value refers to, through plain containers too.
RECURSIVE RefsIn(_), RefsInSeq(_, _)
RefsIn(x) ==
    IF x.t = "ref" THEN {x.v}
    ELSE IF IsPlainContainer(x) THEN RefsInSeq(x.v, x.t = "dict")
    ELSE {}
RefsInSeq(s, pairs) ==
    IF s = <<>> THEN {}
    ELSE RefsIn(IF pairs THEN Head(s)[2] ELSE Head(s)) \cup RefsInSeq(Tail(s), pairs)

Values(h, n) ==
    IF IsMapping(h[n].cls) THEN {h[n].items[i][2] : i \in 1..Len(h[n].items)}
    ELSE {h[n].items[i] : i \in 1..Len(h[n].items)}
Children(h, n) == UNION {RefsIn(x) : x \in Values(h, n)}

\* The objects reachable from r by navigating contents, r included.
RECURSIVE Closure(_, _)
Closure(h, S) ==
    LET T == S \cup UNION {Children(h, n) : n \in S}
    IN IF T = S THEN S ELSE Closure(h, T)
Reach(h, r) == Closure(h, {r})

\* The roots: the parentless objects of a Mutable class.
Roots(h) == {n \in Nodes(h) : h[n].parent = 0 /\ IsMutable(h[n].cls)}
\* The roots whose tree holds n.
RootsHolding(h, n) == {r \in Roots(h) : n \in Reach(h, r)}

\* The Mutable.changed() invocations on n during the last call.
HookOf(h, n) == IF n \in Nodes(h) THEN h[n].hook ELSE 0
FiredIn(h0, h1, n) == HookOf(h1, n) - HookOf(h0, n)
Fired(n) == FiredIn(pre, heap, n)

\* The calls of the public contract that mutate; set_default does when
\* the key is absent.
MutatingOps ==
    {"set", "delete", "clear", "pop", "pop_item", "update",
     "set_at", "delete_at", "append", "extend", "remove", "pop_at"}
Mutates(h0, c) ==
    \/ c.op \in MutatingOps
    \/ c.op = "set_default" /\ ~HasKey(h0[c.node].items, c.args.key)

(* ------------------------------- inputs ------------------------------- *)
P1 == PDict(<< <<"a", PList(<<Num(1)>>)>> >>)
P2 == PList(<<PDict(<<>>)>>)
PlainValues == {Num(1), P1, P2}
Sources == {PDict(<<>>), PDict(<< <<"a", Num(2)>>, <<"b", P2>> >>)}
Kwds == {PDict(<<>>), PDict(<< <<"b", Num(1)>> >>)}
Iterables == {PList(<<>>), PList(<<Num(1), P1>>)}
Indices == (0 - 1)..1
RootSources ==
    {PDict(<< <<"a", PDict(<< <<"b", PList(<<Num(2), Num(1)>>)>> >>)>> >>),
     PList(<<Num(2), PDict(<< <<"a", Num(1)>> >>)>>)}
\* Values a caller can pass: plain ones, and the tracked objects it holds.
Refs == {Ref(n) : n \in Nodes(heap)}
AnyValues == PlainValues \cup Refs
ShareValues == {P1} \cup Refs
AnyIterables == Iterables \cup {PList(<<r>>) : r \in Refs}
AnySources == Sources \cup {PDict(<< <<"b", r>> >>) : r \in Refs}

\* The caller's plain objects, passed by reference.
PlainRefs == {Ref(n) : n \in PlainNodes(heap)}
RefValues == {Num(1)} \cup PlainRefs
RefIterables == {PList(<<r>>) : r \in PlainRefs}
RefSources == {PDict(<< <<"b", r>> >>) : r \in PlainRefs}
SmallSources == {PDict(<<>>), PList(<<Num(2)>>)}

NoArgs == [key |-> "", index |-> 0, value |-> None, extra |-> None]
Call(op, self, args, o) ==
    [op |-> op, node |-> self, args |-> args, err |-> o.err, ret |-> o.ret,
     seen |-> o.seen, steps |-> o.steps]

\* Calls are made while the bound on their number allows.
Ready == nOps < MaxOps

\* The call with outcome o when Mutable.changed() raises: the exception
\* leaves changed() and the method at the step where changed() is called,
\* nothing catches it, and only the steps before that one have had their
\* effect.  A call that does not call changed() is as it was.
hook_raising(h, self, o) ==
    IF \A i \in 1..Len(o.steps) : o.steps[i] # "changed" THEN o
    ELSE IF Head(o.steps) = "changed"
    THEN Outcome(changed(h, self), "HookError", None, o.seen, <<"changed">>)
    ELSE Outcome(o.h, "HookError", None, o.seen, o.steps)

\* One call on a tracked object: its outcome becomes the next state.
Apply(op, self, args, call) ==
    LET o == IF hookOk THEN call ELSE hook_raising(heap, self, call)
    IN /\ Len(o.h) <= MaxNodes
       /\ \A n \in Nodes(o.h) : Len(o.h[n].items) <= MaxLen
       /\ heap' = o.h
       /\ pre' = heap
       /\ last' = Call(op, self, args, o)
       /\ nOps' = nOps + 1
       /\ hookOk' = hookOk
       /\ stats' = LET held == RootsHolding(heap, self)
                       counted == /\ o.err = "none"
                                  /\ Mutates(heap, Call(op, self, args, o))
                                  /\ held # {}
                   IN IF counted
                      THEN [calls |-> stats.calls + 1,
                            hooks |-> stats.hooks
                                      + FiredIn(heap, o.h, CHOOSE r \in held : TRUE)]
                      ELSE stats

Init ==
    /\ \E src \in RootSources :
          /\ heap = construct(<<>>, src)
          /\ last = [op |-> "construct", node |-> 1,
                     args |-> [NoArgs EXCEPT !.value = src], err |-> "none",
                     ret |-> Ref(1), seen |-> <<>>, steps |-> <<>>]
    /\ pre = heap
    /\ nOps = 0
    /\ copied = {}
    /\ stats = [calls |-> 0, hooks |-> 0]
    /\ hookOk = TRUE

(* ------------------------------- actions ------------------------------ *)
\* The owner gets into a state in which its hook raises.
OwnerBreaks ==
    /\ Ready
    /\ hookOk
    /\ hookOk' = FALSE
    /\ pre' = heap
    /\ last' = [last EXCEPT !.op = "owner_breaks"]
    /\ UNCHANGED <<heap, nOps, copied, stats>>

Construct ==
    /\ Ready
    /\ \E src \in RootSources :
          Apply("construct", Len(heap) + 1, [NoArgs EXCEPT !.value = src],
                Outcome(construct(heap, src), "none", Ref(Len(heap) + 1), <<>>, <<>>))
    /\ UNCHANGED copied

DictSet(V) ==
    /\ Ready
    /\ \E n \in Nodes(heap), k \in Keys, v \in V :
          /\ IsDict(heap, n)
          /\ Apply("set", n, [NoArgs EXCEPT !.key = k, !.value = v],
                   TrackedDict_setitem(heap, n, k, v))
    /\ UNCHANGED copied

DictDelete ==
    /\ Ready
    /\ \E n \in Nodes(heap), k \in Keys :
          /\ IsDict(heap, n)
          /\ Apply("delete", n, [NoArgs EXCEPT !.key = k], TrackedDict_delitem(heap, n, k))
    /\ UNCHANGED copied

DictClear ==
    /\ Ready
    /\ \E n \in Nodes(heap) :
          /\ IsDict(heap, n)
          /\ Apply("clear", n, NoArgs, TrackedDict_clear(heap, n))
    /\ UNCHANGED copied

DictPop ==
    /\ Ready
    /\ \E n \in Nodes(heap), k \in Keys, d \in {None, Num(1)} :
          /\ IsDict(heap, n)
          /\ Apply("pop", n, [NoArgs EXCEPT !.key = k, !.value = d],
                   TrackedDict_pop(heap, n, k, d # None, d))
    /\ UNCHANGED copied

DictPopItem ==
    /\ Ready
    /\ \E n \in Nodes(heap) :
          /\ IsDict(heap, n)
          /\ Apply("pop_item", n, NoArgs, TrackedDict_popitem(heap, n))
    /\ UNCHANGED copied

DictUpdate(S) ==
    /\ Ready
    /\ \E n \in Nodes(heap), src \in S, kw \in Kwds :
          /\ IsDict(heap, n)
          /\ Apply("update", n, [NoArgs EXCEPT !.value = src, !.extra = kw],
                   TrackedDict_update(heap, n, src, kw))
    /\ UNCHANGED copied

DictSetDefault(V) ==
    /\ Ready
    /\ \E n \in Nodes(heap), k \in Keys, v \in V :
          /\ IsDict(heap, n)
          /\ Apply("set_default", n, [NoArgs EXCEPT !.key = k, !.value = v],
                   TrackedDict_setdefault(heap, n, k, v))
    /\ UNCHANGED copied

DictIor ==
    /\ Ready
    /\ \E n \in Nodes(heap), src \in Sources :
          /\ IsDict(heap, n)
          /\ Apply("ior", n, [NoArgs EXCEPT !.value = src], TrackedDict_ior(heap, n, src))
    /\ UNCHANGED copied

ListSetAt(V) ==
    /\ Ready
    /\ \E n \in Nodes(heap), i \in Indices, v \in V :
          /\ IsList(heap, n)
          /\ Apply("set_at", n, [NoArgs EXCEPT !.index = i, !.value = v],
                   TrackedList_setitem(heap, n, i, v))
    /\ UNCHANGED copied

ListDeleteAt ==
    /\ Ready
    /\ \E n \in Nodes(heap), i \in Indices :
          /\ IsList(heap, n)
          /\ Apply("delete_at", n, [NoArgs EXCEPT !.index = i],
                   TrackedList_delitem(heap, n, i))
    /\ UNCHANGED copied

ListAppend(V) ==
    /\ Ready
    /\ \E n \in Nodes(heap), v \in V :
          /\ IsList(heap, n)
          /\ Apply("append", n, [NoArgs EXCEPT !.value = v],
                   TrackedList_append(heap, n, v))
    /\ UNCHANGED copied

ListExtend(I) ==
    /\ Ready
    /\ \E n \in Nodes(heap), it \in I :
          /\ IsList(heap, n)
          /\ Apply("extend", n, [NoArgs EXCEPT !.value = it],
                   TrackedList_extend(heap, n, it))
    /\ UNCHANGED copied

ListRemove ==
    /\ Ready
    /\ \E n \in Nodes(heap), v \in PlainValues :
          /\ IsList(heap, n)
          /\ Apply("remove", n, [NoArgs EXCEPT !.value = v],
                   TrackedList_remove(heap, n, v))
    /\ UNCHANGED copied

ListPopAt ==
    /\ Ready
    /\ \E n \in Nodes(heap), i \in Indices :
          /\ IsList(heap, n)
          /\ Apply("pop_at", n, [NoArgs EXCEPT !.index = i], TrackedList_pop(heap, n, i))
    /\ UNCHANGED copied

ListSort ==
    /\ Ready
    /\ \E n \in Nodes(heap), rev \in BOOLEAN :
          /\ IsList(heap, n)
          /\ Apply("sort", n, [NoArgs EXCEPT !.index = IF rev THEN 1 ELSE 0],
                   TrackedList_sort(heap, n, rev))
    /\ UNCHANGED copied

ListInsert ==
    /\ Ready
    /\ \E n \in Nodes(heap), i \in Indices, v \in PlainValues :
          /\ IsList(heap, n)
          /\ Apply("insert", n, [NoArgs EXCEPT !.index = i, !.value = v],
                   list_insert(heap, n, i, v))
    /\ UNCHANGED copied

ListReverse ==
    /\ Ready
    /\ \E n \in Nodes(heap) :
          /\ IsList(heap, n)
          /\ Apply("reverse", n, NoArgs, list_reverse(heap, n))
    /\ UNCHANGED copied

ListClear ==
    /\ Ready
    /\ \E n \in Nodes(heap) :
          /\ IsList(heap, n)
          /\ Apply("list_clear", n, NoArgs, list_clear(heap, n))
    /\ UNCHANGED copied

ListIadd ==
    /\ Ready
    /\ \E n \in Nodes(heap), it \in Iterables :
          /\ IsList(heap, n)
          /\ Apply("iadd", n, [NoArgs EXCEPT !.value = it], list_iadd(heap, n, it))
    /\ UNCHANGED copied

ListImul ==
    /\ Ready
    /\ \E n \in Nodes(heap), k \in {0, 2} :
          /\ IsList(heap, n)
          /\ Apply("imul", n, [NoArgs EXCEPT !.index = k], list_imul(heap, n, k))
    /\ UNCHANGED copied

DeepCopy ==
    /\ Ready
    /\ \E n \in Nodes(heap) :
          LET o == copy_deepcopy(heap, n)
          IN /\ Apply("deepcopy", n, NoArgs, o)
             /\ copied' = IF o.err = "none"
                          THEN copied \cup {[src |-> n, dst |-> o.ret.v]}
                          ELSE copied

DictIorItem ==
    /\ Ready
    /\ \E p \in Nodes(heap), k \in Keys, i \in Indices, other \in Sources :
          /\ IsDictCls(heap[p].cls) => i = 0
          /\ IsListCls(heap[p].cls) => k = "a"
          /\ Member(heap, p, k, i).t = "ref"
          /\ IsDict(heap, Member(heap, p, k, i).v)
          /\ Apply("ior_item", p, [NoArgs EXCEPT !.key = k, !.index = i, !.value = other],
                   ior_through_parent(heap, p, k, i, other))
    /\ UNCHANGED copied

PickleRoundTrip ==
    /\ Ready
    /\ \E n \in Nodes(heap) :
          LET o == pickle_roundtrip(heap, n)
          IN /\ Apply("pickle", n, NoArgs, o)
             /\ copied' = IF o.err = "none"
                          THEN copied \cup {[src |-> n, dst |-> o.ret.v]}
                          ELSE copied

\* The tracked (overriding) methods, called with plain values.
Next ==
    \/ DictSet(PlainValues)
    \/ DictDelete
    \/ DictClear
    \/ DictPop
    \/ DictPopItem
    \/ DictUpdate(Sources)
    \/ DictSetDefault(PlainValues)
    \/ ListSetAt(PlainValues)
    \/ ListDeleteAt
    \/ ListAppend(PlainValues)
    \/ ListExtend(Iterables)
    \/ ListRemove
    \/ ListPopAt
    \/ ListSort

Spec == Init /\ [][Next]_vars

\* The same, and deep copies.
NextCopy ==
    \/ Next
    \/ DeepCopy

SpecCopy == Init /\ [][NextCopy]_vars

\* The same, and pickle round trips.
NextPickle ==
    \/ NextCopy
    \/ PickleRoundTrip

SpecPickle == Init /\ [][NextPickle]_vars

\* The tracked methods, with an owner whose hook may start to raise.
NextHook ==
    \/ Next
    \/ OwnerBreaks

SpecHook == Init /\ [][NextHook]_vars

\* The tracked methods, more roots, and merges through the parent.
NextBuild ==
    \/ Next
    \/ Construct
    \/ DictIorItem

SpecBuild == Init /\ [][NextBuild]_vars

\* The storing methods, with the tracked objects the caller holds passed
\* as values too (an object can be stored in itself, in a descendant, and
\* in several places), and the deletions.
NextShare ==
    \/ DictSet(ShareValues)
    \/ DictUpdate(AnySources)
    \/ DictSetDefault(ShareValues)
    \/ ListSetAt(ShareValues)
    \/ ListAppend(ShareValues)
    \/ ListExtend(AnyIterables)
    \/ DictDelete
    \/ ListDeleteAt

SpecShare == Init /\ [][NextShare]_vars

\* A root and the caller's plain objects beside it.
InitPlain ==
    /\ \E src \in SmallSources :
          /\ heap = caller_objects(construct(<<>>, src))
          /\ last = [op |-> "construct", node |-> 1,
                     args |-> [NoArgs EXCEPT !.value = src], err |-> "none",
                     ret |-> Ref(1), seen |-> <<>>, steps |-> <<>>]
    /\ pre = heap
    /\ nOps = 0
    /\ copied = {}
    /\ stats = [calls |-> 0, hooks |-> 0]
    /\ hookOk = TRUE

\* NestedMutableDict(P) / NestedMutableList(P) for a plain object P.
ConstructFrom ==
    /\ Ready
    /\ \E p \in PlainNodes(heap) :
          Apply("construct", Len(heap) + 1, [NoArgs EXCEPT !.value = Ref(p)],
                Outcome(construct(heap, Entries(heap, p)), "none",
                        Ref(Len(heap) + 1), <<>>, <<>>))
    /\ UNCHANGED copied

\* The caller mutates a plain object it holds.
PlainDictSet ==
    /\ Ready
    /\ \E p \in PlainNodes(heap), k \in Keys :
          /\ heap[p].cls = "dict"
          /\ Apply("plain_set", p, [NoArgs EXCEPT !.key = k, !.value = Num(3)],
                   dict_setitem(heap, p, k, Num(3)))
    /\ UNCHANGED copied

PlainListInsert ==
    /\ Ready
    /\ \E p \in PlainNodes(heap), i \in Indices :
          /\ heap[p].cls = "list"
          /\ Apply("plain_insert", p, [NoArgs EXCEPT !.index = i, !.value = Num(3)],
                   list_insert(heap, p, i, Num(3)))
    /\ UNCHANGED copied

PlainListClear ==
    /\ Ready
    /\ \E p \in PlainNodes(heap) :
          /\ heap[p].cls = "list"
          /\ Apply("plain_clear", p, NoArgs, list_clear(heap, p))
    /\ UNCHANGED copied

PlainOps == {"plain_set", "plain_insert", "plain_clear"}

\* The converting methods with the caller's plain objects passed by
\* reference, the removing methods, and the caller's own mutations of
\* its plain objects.
NextPlain ==
    \/ ConstructFrom
    \/ DictSet(RefValues)
    \/ DictUpdate(RefSources)
    \/ DictSetDefault(RefValues)
    \/ ListSetAt(RefValues)
    \/ ListAppend(RefValues)
    \/ ListExtend(RefIterables)
    \/ DictDelete
    \/ DictClear
    \/ ListDeleteAt
    \/ ListPopAt
    \/ PlainDictSet
    \/ PlainListInsert
    \/ PlainListClear

SpecPlain == InitPlain /\ [][NextPlain]_vars

\* Everything a caller can do: more roots, tracked objects passed as
\* values, the inherited native mutators, deep copies.
NextFull ==
    \/ Construct
    \/ ListInsert
    \/ ListReverse
    \/ ListClear
    \/ ListIadd
    \/ ListImul
    \/ DictIor
    \/ DictSet(AnyValues)
    \/ DictDelete
    \/ DictClear
    \/ DictPop
    \/ DictPopItem
    \/ DictUpdate(AnySources)
    \/ DictSetDefault(AnyValues)
    \/ ListSetAt(AnyValues)
    \/ ListDeleteAt
    \/ ListAppend(AnyValues)
    \/ ListExtend(AnyIterables)
    \/ ListRemove
    \/ ListPopAt
    \/ ListSort
    \/ DeepCopy
    \/ PickleRoundTrip
    \/ DictIorItem

SpecFull == Init /\ [][NextFull]_vars

(* ------------------------------- claims ------------------------------- *)
\* C1: every successful mutating call on an object of a tree, at any
\* depth, invokes the hook of the tree's root exactly once (and no other
\* hook), so N such calls make N invocations.
C1_PropagationCompleteness ==
    /\ stats.hooks = stats.calls
    /\ (last.err = "none" /\ Mutates(pre, last)) =>
          \A r \in RootsHolding(pre, last.node) :
             /\ Fired(r) = 1
             /\ \A n \in Nodes(heap) \ {r} : Fired(n) = 0

\* Two successful mutating calls were made, the last one on an object two
\* levels below the root, and the root's hook has run twice.
C1_Witness ==
    /\ last.err = "none" /\ Mutates(pre, last)
    /\ \E r \in RootsHolding(pre, last.node) :
          /\ last.node # r
          /\ last.node \notin Children(pre, r)
          /\ heap[r].hook = 2
    /\ stats.calls = 2

NoPlainIn(h, n) == \A x \in Values(h, n) : ~IsPlainContainer(x)

\* C2: every dict or list reachable from a root is a tracked object: no
\* plain dict or list is reachable.
C2_WrappingClosure ==
    \A r \in Roots(heap) : \A n \in Reach(heap, r) : NoPlainIn(heap, n)

\* A nested plain structure was inserted below the root: the call created
\* two tracked objects, both reachable from the root.
C2_Witness ==
    /\ last.op \in {"set", "update", "set_default", "set_at", "append", "extend"}
    /\ last.err = "none"
    /\ Len(heap) >= Len(pre) + 2
    /\ \E r \in Roots(heap) :
          /\ last.node # r
          /\ {Len(heap), Len(heap) - 1} \subseteq Reach(heap, r)

\* Exactly one hook invocation during the last call, at the root of the
\* receiver's parent chain.
NotifiedOnce ==
    /\ Fired(RootOf(pre, last.node)) = 1
    /\ \A n \in Nodes(heap) \ {RootOf(pre, last.node)} : Fired(n) = 0
NotNotified == \A n \in Nodes(heap) : Fired(n) = 0
\* No object that existed before the last call has other contents or
\* another parent after it.
ContentsUnchanged ==
    \A n \in Nodes(pre) :
       heap[n].items = pre[n].items /\ heap[n].parent = pre[n].parent

\* The tracked objects the last call was given as values to store.
Inserted(c) ==
    IF c.op \in {"set", "set_at", "append"}
    THEN (IF c.args.value.t = "ref" THEN {c.args.value.v} ELSE {})
    ELSE IF c.op = "extend"
    THEN {c.args.value.v[i].v :
             i \in {j \in 1..Len(c.args.value.v) : c.args.value.v[j].t = "ref"}}
    ELSE IF c.op = "update"
    THEN {c.args.value.v[i][2].v :
             i \in {j \in 1..Len(c.args.value.v) : c.args.value.v[j][2].t = "ref"}}
    ELSE {}

\* C3: a tracked object B with parent A, passed as a value to set, update,
\* append, extend or set_at of another container C, is stored as it is and
\* has parent C afterwards.
C3_ParentRebind ==
    last.err = "none" =>
       \A b \in Inserted(last) \ {last.node} :
          pre[b].parent \notin {0, last.node} =>
             /\ heap[b].items = pre[b].items
             /\ heap[b].parent = last.node

InheritedOps == {"insert", "reverse", "list_clear", "iadd", "imul", "ior"}

\* C4: every mutator a tracked dict or list exposes, the inherited ones
\* included, notifies the root once and leaves no plain container in the
\* receiver.
C4_AllMutatorsIntercepted ==
    (last.err = "none" /\ (Mutates(pre, last) \/ last.op \in InheritedOps)) =>
       /\ NotifiedOnce
       /\ NoPlainIn(pre, last.node) => NoPlainIn(heap, last.node)

\* C5: delete of an absent key raises KeyError and invokes no hook.
C5_FailedDeleteSilent ==
    (last.op = "delete" /\ ~HasKey(pre[last.node].items, last.args.key)) =>
       /\ last.err = "KeyError"
       /\ NotNotified

\* C6: a mutating method runs the native operation, then the conversion,
\* then changed(): when the hook runs the receiver holds its new contents.
C6_NativeThenConvertThenChanged ==
    (last.op \in MutatingOps \cup {"set_default"} /\ last.steps # <<>>) =>
       /\ last.steps \in {<<"native", "convert", "changed">>, <<"native", "changed">>}
       /\ last.err = "none" => last.seen = heap[last.node].items

\* C7: set_default on a present key returns the value stored and changes
\* and notifies nothing; on an absent key it stores the converted default
\* under the key, notifies the root once and returns the stored value: for
\* a plain container a new tracked object whose parent is the mapping.
C7_SetDefault ==
    last.op = "set_default" =>
       LET n == last.node
           k == last.args.key
           d == last.args.value
       IN /\ last.err = "none"
          /\ IF HasKey(pre[n].items, k)
             THEN /\ last.ret = DictGet(pre[n].items, k)
                  /\ heap = pre
             ELSE /\ heap[n].items = Append(pre[n].items, <<k, last.ret>>)
                  /\ \A m \in Nodes(pre) \ {n} : heap[m].items = pre[m].items
                  /\ NotifiedOnce
                  /\ py_eq(heap, last.ret, d)
                  /\ IF IsPlainContainer(d)
                     THEN /\ last.ret.t = "ref"
                          /\ last.ret.v \notin Nodes(pre)
                          /\ heap[last.ret.v].parent = n
                          /\ \A m \in Reach(heap, last.ret.v) : NoPlainIn(heap, m)
                     ELSE last.ret = d

\* set_default stored a plain container under an absent key of a nested
\* mapping.
C7_Witness ==
    /\ last.op = "set_default"
    /\ pre[last.node].parent # 0
    /\ ~HasKey(pre[last.node].items, last.args.key)
    /\ IsPlainContainer(last.args.value)
    /\ last.ret.t = "ref"

\* The calls that leave the contents as they are.
NoOpCall ==
    \/ /\ last.op = "update"
       /\ last.args.value = PDict(<<>>)
       /\ last.args.extra = PDict(<<>>)
    \/ last.op = "clear" /\ pre[last.node].items = <<>>
    \/ /\ last.op = "pop"
       /\ last.args.value # None
       /\ ~HasKey(pre[last.node].items, last.args.key)

\* C8: update with nothing to merge, clear of an empty mapping and
\* pop(key, default) of an absent key return normally, notify the root
\* once and change no contents.
C8_AssumeDirty ==
    NoOpCall => last.err = "none" /\ NotifiedOnce /\ ContentsUnchanged

\* An already empty mapping was cleared.
C8_Witness ==
    /\ last.op = "clear"
    /\ pre[last.node].items = <<>>
    /\ Fired(RootOf(pre, last.node)) = 1

\* The order list.sort gives a list of numbers.
RECURSIVE InsertSorted(_, _), SortedInts(_)
InsertSorted(s, x) ==
    IF s = <<>> THEN <<x>>
    ELSE IF x.v < Head(s).v THEN <<x>> \o s
    ELSE <<Head(s)>> \o InsertSorted(Tail(s), x)
SortedInts(s) == IF s = <<>> THEN <<>> ELSE InsertSorted(SortedInts(Tail(s)), Head(s))
AllInts(s) == \A i \in 1..Len(s) : s[i].t = "int"

\* C9: sort returns normally, leaves the elements in the order the native
\* sort gives and notifies the root once.
C9_SortSorts ==
    (last.op = "sort" /\ AllInts(pre[last.node].items)) =>
       /\ last.err = "none"
       /\ heap[last.node].items =
             IF last.args.index = 1 THEN Reverse(SortedInts(pre[last.node].items))
             ELSE SortedInts(pre[last.node].items)
       /\ NotifiedOnce

\* The objects whose parent chain ends at r.
Family(h, r) == {n \in Nodes(h) : RootOf(h, n) = r}
SameAsBefore(S) == \A n \in S \cap Nodes(pre) : heap[n] = pre[n]

\* C10: a tree T and its deep copy T' are independent: making the copy
\* changes no object that existed, T' shares no object with T, a call on
\* an object of T' changes no object of T and invokes no hook of T, and a
\* call on an object of T changes no object of T'.
C10_DeepCopyIndependence ==
    /\ last.op = "deepcopy" => SameAsBefore(Nodes(pre))
    /\ \A c \in copied :
          LET T == Family(heap, RootOf(heap, c.src))
              Tc == Family(heap, RootOf(heap, c.dst))
          IN /\ T \cap Tc = {}
             /\ Reach(heap, c.dst) \subseteq Tc
             /\ Reach(heap, RootOf(heap, c.dst)) \subseteq Tc
             /\ (last.op # "deepcopy" /\ last.node \in Tc) => SameAsBefore(T)
             /\ (last.op # "deepcopy" /\ last.node \in T) => SameAsBefore(Tc)

\* A nested object of a deep copy was mutated, and the hook of the copy's
\* root ran.
C10_Witness ==
    \E c \in copied :
       /\ last.op # "deepcopy"
       /\ last.err = "none" /\ Mutates(pre, last)
       /\ last.node \in Reach(pre, c.dst) \ {c.dst}
       /\ Fired(RootOf(heap, c.dst)) = 1
       /\ heap[last.node].items # pre[last.node].items

\* Every tracked object below r has as parent the object that holds it.
ParentsWired(h, r) ==
    \A n \in Reach(h, r) : \A m \in Children(h, n) : h[m].parent = n

\* C11: the pickle round trip of a root with nested containers returns
\* normally and leaves the original as it was; the reloaded tree is made of
\* new objects, is value-equal to the original, and each nested object's
\* parent is the reloaded container that holds it; an append to the
\* reloaded tree leaves the original unchanged.
C11_PickleRoundTrip ==
    /\ (/\ last.op = "pickle"
        /\ last.node \in Roots(pre)
        /\ Children(pre, last.node) # {}) =>
          /\ last.err = "none"
          /\ SameAsBefore(Nodes(pre))
          /\ Reach(heap, last.ret.v) \cap Nodes(pre) = {}
          /\ py_eq(heap, last.ret, Ref(last.node))
          /\ heap[last.ret.v].parent = 0
          /\ ParentsWired(heap, last.ret.v)
    /\ \A c \in copied :
          (last.op = "append" /\ last.node \in Reach(pre, c.dst)) =>
             SameAsBefore(Reach(pre, c.src))

\* C12: copying a nested object copies the object and what it holds, not
\* its ancestors: the copy has no parent, and as many objects are made as
\* the original holds, itself included.
C12_ParentNotInState ==
    (/\ last.op \in {"deepcopy", "pickle"}
     /\ last.err = "none"
     /\ pre[last.node].parent # 0) =>
       /\ heap[last.ret.v].parent = 0
       /\ Len(heap) - Len(pre) = Cardinality(Reach(pre, last.node))

\* The plain structure a value stands for: tracked objects replaced by
\* plain dicts and lists of their contents.
RECURSIVE Plain(_, _), PlainSeq(_, _, _)
Plain(h, x) ==
    IF x.t = "ref"
    THEN [t |-> KindOf(h, x), v |-> PlainSeq(h, h[x.v].items, IsMapping(h[x.v].cls))]
    ELSE IF IsPlainContainer(x) THEN [t |-> x.t, v |-> PlainSeq(h, x.v, x.t = "dict")]
    ELSE x
PlainSeq(h, s, pairs) ==
    IF s = <<>> THEN <<>>
    ELSE <<IF pairs THEN <<Head(s)[1], Plain(h, Head(s)[2])>> ELSE Plain(h, Head(s))>>
         \o PlainSeq(h, Tail(s), pairs)

\* The native dict / list method of call c applied to the plain contents
\* s: the exception raised ("none" when it returns) and the contents left.
native_call(c, s) ==
    LET a == c.args
        n == Len(s)
        ok(v) == [err |-> "none", v |-> v]
        fail(e) == [err |-> e, v |-> s]
    IN CASE c.op = "set" -> ok(DictStore(s, a.key, a.value))
         [] c.op \in {"delete", "pop"} ->
               IF HasKey(s, a.key) THEN ok(DictRemove(s, a.key))
               ELSE IF c.op = "pop" /\ a.value # None THEN ok(s)
               ELSE fail("KeyError")
         [] c.op = "clear" -> ok(<<>>)
         [] c.op = "pop_item" ->
               IF s # <<>> THEN ok(SubSeq(s, 1, n - 1)) ELSE fail("KeyError")
         [] c.op = "update" -> ok(DictStoreAll(s, a.value.v \o a.extra.v))
         [] c.op = "set_default" ->
               IF HasKey(s, a.key) THEN ok(s) ELSE ok(DictStore(s, a.key, a.value))
         [] c.op = "set_at" ->
               IF ValidIndex(a.index, n) THEN ok([s EXCEPT ![Pos(a.index, n)] = a.value])
               ELSE fail("IndexError")
         [] c.op \in {"delete_at", "pop_at"} ->
               IF ValidIndex(a.index, n) THEN ok(RemoveAt(s, Pos(a.index, n)))
               ELSE fail("IndexError")
         [] c.op = "append" -> ok(Append(s, a.value))
         [] c.op = "extend" -> ok(s \o a.value.v)
         [] c.op = "remove" ->
               LET hits == {i \in 1..n : py_eq(<<>>, s[i], a.value)}
               IN IF hits # {}
                  THEN ok(RemoveAt(s, CHOOSE i \in hits : \A j \in hits : i <= j))
                  ELSE fail("ValueError")
         [] c.op = "sort" ->
               IF n <= 1 THEN ok(s)
               ELSE IF AllInts(s)
               THEN ok(IF a.index = 1 THEN Reverse(SortedInts(s)) ELSE SortedInts(s))
               ELSE fail("TypeError")

\* C13: a tracked tree is value-equal to the plain structure it was built
\* from, and every mutating call leaves the receiver value-equal to the
\* plain structure the same native call gives, with the same outcome, and
\* the other objects as they were.
C13_ValueEquality ==
    /\ last.op = "construct" => Plain(heap, last.ret) = last.args.value
    /\ last.op \in MutatingOps \cup {"set_default", "sort"} =>
          LET nat == native_call(last, Plain(pre, Ref(last.node)).v)
          IN /\ last.err = nat.err
             /\ Plain(heap, Ref(last.node)).v = nat.v
             /\ \A m \in Nodes(pre) \ {last.node} : heap[m].items = pre[m].items

\* The exception the precondition of call c, violated on heap h, calls for;
\* "none" when the precondition holds.  KeyNotFound and EmptyContainer are
\* both KeyError, IndexOutOfRange is IndexError, ValueNotFound ValueError.
Violated(h, c) ==
    LET items == h[c.node].items
        n == Len(items)
    IN CASE c.op = "delete" -> IF HasKey(items, c.args.key) THEN "none" ELSE "KeyError"
         [] c.op = "pop" ->
               IF HasKey(items, c.args.key) \/ c.args.value # None THEN "none"
               ELSE "KeyError"
         [] c.op = "pop_item" -> IF items # <<>> THEN "none" ELSE "KeyError"
         [] c.op \in {"delete_at", "set_at", "pop_at"} ->
               IF ValidIndex(c.args.index, n) THEN "none" ELSE "IndexError"
         [] c.op = "remove" ->
               IF \E i \in 1..n : py_eq(h, items[i], c.args.value) THEN "none"
               ELSE "ValueError"
         [] OTHER -> "none"

\* C14: delete, pop, pop_item, delete_at, set_at, pop_at and remove raise
\* exactly when their precondition is violated, each the exception of its
\* violation, and after the failure every object that existed has the
\* contents and the parent it had.
C14_ErrorsLeaveTree ==
    last.op \in {"delete", "pop", "pop_item", "delete_at", "set_at", "pop_at", "remove"} =>
       /\ last.err = Violated(pre, last)
       /\ last.err # "none" => ContentsUnchanged

\* set_at of a plain container at an index out of range of a nested list
\* failed.
C14_Witness ==
    /\ last.op = "set_at"
    /\ last.err = "IndexError"
    /\ IsPlainContainer(last.args.value)
    /\ pre[last.node].parent # 0

\* The objects the last call made.
NewNodes == Nodes(heap) \ Nodes(pre)
\* The element the last call (set, set_default, set_at, append) stored.
Stored(c) ==
    LET items == heap[c.node].items
    IN IF c.op \in {"set", "set_default"} THEN DictGet(items, c.args.key)
       ELSE IF c.op = "set_at" THEN items[Pos(c.args.index, Len(items))]
       ELSE items[Len(items)]
PlainCount(s) == Cardinality({i \in 1..Len(s) : IsPlainContainer(s[i])})

\* C15: construction wires every nested object to the object holding it;
\* set, set_default (absent key), set_at and append of a plain container
\* store a new tracked object whose parent is the receiver; extend stores
\* one for every plain container of the iterable, update leaves none
\* plain; and every object made by the call, at any depth, has as parent
\* the object that holds it.
C15_ConvertedParents ==
    /\ last.op = "construct" =>
          /\ ParentsWired(heap, last.node)
          /\ \A n \in Reach(heap, last.node) : NoPlainIn(heap, n)
    /\ (/\ last.op \in {"set", "set_default", "set_at", "append", "extend", "update"}
        /\ last.err = "none") =>
          /\ \A m \in NewNodes : \A n \in Nodes(heap) :
                m \in Children(heap, n) => heap[m].parent = n
          /\ \A m \in NewNodes : NoPlainIn(heap, m)
          /\ NoPlainIn(pre, last.node) => NoPlainIn(heap, last.node)
    /\ (/\ last.op \in {"set", "set_default", "set_at", "append"}
        /\ last.err = "none"
        /\ IsPlainContainer(last.args.value)
        /\ last.op = "set_default" => ~HasKey(pre[last.node].items, last.args.key)) =>
          /\ Stored(last).t = "ref"
          /\ Stored(last).v \in NewNodes
          /\ heap[Stored(last).v].parent = last.node
    /\ (last.op = "extend" /\ last.err = "none") =>
          Cardinality(NewNodes \cap Children(heap, last.node))
             = PlainCount(last.args.value.v)

\* A plain dict holding a list was appended to a nested list: two objects
\* were made.
C15_Witness ==
    /\ last.op = "append"
    /\ last.err = "none"
    /\ last.args.value = P1
    /\ pre[last.node].parent # 0
    /\ Len(heap) = Len(pre) + 2

\* The changed() calls on n, and the hook invocations on n, so far.
CallsOf(h, n) == IF n \in Nodes(h) THEN h[n].calls ELSE 0

\* C16: constructing a root from a plain nested structure invokes no hook
\* and calls changed() on no object, neither on the objects it makes nor
\* on those that exist; the objects a conversion makes during any
\* inserting call have had no changed() call and no hook invocation.
C16_ConstructionSilent ==
    /\ last.op = "construct" =>
          \A n \in Nodes(heap) :
             /\ CallsOf(heap, n) = CallsOf(pre, n)
             /\ HookOf(heap, n) = HookOf(pre, n)
    /\ (last.op \in MutatingOps \cup {"set_default"}) =>
          \A m \in NewNodes : heap[m].calls = 0 /\ heap[m].hook = 0

\* A second root was built from a structure three levels deep, after a
\* call that had notified the first root.
C16_Witness ==
    /\ last.op = "construct"
    /\ Len(heap) >= Len(pre) + 3
    /\ \E n \in Nodes(pre) : pre[n].hook > 0

\* C17: P[k] |= other, for a tracked dict M stored under k in P (M other
\* than P: when a dict holds itself, the slot merged into and the slot
\* stored back are the same one), returns normally; P[k] is still M, M holds its previous entries merged with
\* those of other (other's values under equal keys), no other object has
\* other contents, no parent has changed, no object was made, and the hook
\* of the root of P's chain was invoked once, and no other hook.
C17_MergeThroughParent ==
    last.op = "ior_item" =>
       LET m == Member(pre, last.node, last.args.key, last.args.index).v
       IN m # last.node =>
          /\ last.err = "none"
          /\ Member(heap, last.node, last.args.key, last.args.index) = Ref(m)
          /\ heap[m].items = DictStoreAll(pre[m].items, last.args.value.v)
          /\ \A n \in Nodes(pre) \ {m} : heap[n].items = pre[n].items
          /\ \A n \in Nodes(pre) : heap[n].parent = pre[n].parent
          /\ Len(heap) = Len(pre)
          /\ NotifiedOnce

\* A dict nested below the root was merged, through its parent, with a
\* dict that has one of its keys: the value under that key was replaced.
C17_Witness ==
    /\ last.op = "ior_item"
    /\ LET m == Member(pre, last.node, last.args.key, last.args.index).v
       IN /\ m # last.node
          /\ \E k \in Keys :
             /\ HasKey(pre[m].items, k)
             /\ HasKey(last.args.value.v, k)
             /\ DictGet(heap[m].items, k) # DictGet(pre[m].items, k)
    /\ Fired(RootOf(pre, last.node)) = 1

\* Object n is not among the contents of the tree of the root its parent
\* chain ends at.
Detached(h, n) == n \notin Reach(h, RootOf(h, n))

\* C18: no call changes the parent of an object that existed, so an
\* object taken out of its container keeps the container as parent; and a
\* successful mutating call on a detached object invokes the hook of the
\* root its chain ends at once, and no other hook.
C18_ParentKept ==
    /\ \A n \in Nodes(pre) : heap[n].parent = pre[n].parent
    /\ (last.err = "none" /\ Mutates(pre, last) /\ Detached(pre, last.node)) =>
          NotifiedOnce

\* An object that had been taken out of its container was mutated: its
\* parent is still that container, which does not hold it, and the hook
\* of the former root ran.
C18_Witness ==
    /\ last.err = "none" /\ Mutates(pre, last)
    /\ Detached(pre, last.node)
    /\ heap[last.node].parent # 0
    /\ last.node \notin Children(heap, heap[last.node].parent)
    /\ heap[last.node].items # pre[last.node].items
    /\ Fired(RootOf(pre, last.node)) = 1

\* The last call is one that mutates when it completes.
MutatingCall ==
    \/ last.op \in MutatingOps \cup {"sort"}
    \/ last.op = "set_default" /\ ~HasKey(pre[last.node].items, last.args.key)

\* C19: when the owner's hook raises, every mutating call ends with the
\* hook's exception, and after it every object that existed has the
\* contents and the parent it had and no object was made.
C19_HookFailure ==
    /\ (~hookOk /\ MutatingCall) => last.err = "HookError"
    /\ last.err = "HookError" =>
          /\ ContentsUnchanged
          /\ Len(heap) = Len(pre)

\* The append of a plain container to a nested list met a raising hook.
C19_Witness ==
    /\ ~hookOk
    /\ last.op = "append"
    /\ last.err = "HookError"
    /\ IsPlainContainer(last.args.value)
    /\ pre[last.node].parent # 0

\* Following `parent` from n ends at a parentless object within the given
\* number of steps.
RECURSIVE EndsWithin(_, _, _)
EndsWithin(h, n, steps) ==
    IF h[n].parent = 0 THEN TRUE
    ELSE IF steps = 0 THEN FALSE
    ELSE EndsWithin(h, h[n].parent, steps - 1)

\* C20: from every object the parent chain ends at a parentless object
\* after fewer steps than there are objects: no chain has a cycle, and
\* changed() terminates.
C20_ParentChainAcyclic ==
    \A n \in Nodes(heap) : EndsWithin(heap, n, Len(heap) - 1)

\* A tracked object was stored in one of its own descendants: the contents
\* have a cycle through it.
C20_Witness ==
    /\ last.op \in {"set", "set_at", "append"}
    /\ last.err = "none"
    /\ last.args.value.t = "ref"
    /\ last.node # last.args.value.v
    /\ last.node \in Reach(pre, last.args.value.v)
    /\ last.args.value.v \in Children(heap, last.node)


\* The plain structure of object n, as navigation from n shows it.
View(h, n) == Plain(h, Ref(n))

\* C21: conversion copies plain containers recursively.  After a plain
\* dict or list P was passed to a converting method (or to a constructor),
\* no tracked object holds P or a container nested in P; a mutation of P
\* or of a container nested in it changes what no tracked object shows
\* and calls no changed() and no hook; a call on a tracked object changes
\* what no plain object shows.
C21_ConversionCopies ==
    /\ \A n \in TrackedNodes(heap) : Reach(heap, n) \cap PlainNodes(heap) = {}
    /\ last.op \in PlainOps =>
          \A n \in TrackedNodes(pre) :
             /\ View(heap, n) = View(pre, n)
             /\ heap[n].hook = pre[n].hook
             /\ heap[n].calls = pre[n].calls
    /\ last.op \notin PlainOps =>
          \A p \in PlainNodes(pre) : View(heap, p) = View(pre, p)

\* A tracked object made by converting P showed what P showed; then a
\* container nested in P was mutated, and P shows something else.
C21_Witness ==
    /\ last.op \in PlainOps
    /\ last.err = "none"
    /\ \E p \in PlainNodes(pre), n \in TrackedNodes(pre) :
          /\ heap[n].parent # 0
          /\ View(pre, n) = View(pre, p)
          /\ last.node \in Reach(pre, p) \ {p}
          /\ View(heap, p) # View(pre, p)
          /\ View(heap, n) = View(pre, n)

====
